---------------------------- MODULE Spec2Model ----------------------------
(***************************************************************************)
(* VelocitySet (velocity_set.h): a sharded concurrent set of integer keys. *)
(* A fixed power-of-two array of buckets, each with its own SpinLock       *)
(* (atomic_flag test_and_set / clear) and its own unordered_set.           *)
(*                                                                         *)
(* Atomic steps of a thread inside a public operation:                     *)
(*   "lock"   one poll of flag.test_and_set (acquire or failed poll)       *)
(*   "cs"     the operation on the bucket's data_set                       *)
(*   "unlock" flag.clear, then loop to the next bucket or return           *)
(***************************************************************************)
EXTENDS Integers, FiniteSets, Sequences, TLC

\* ------------------------------------------------------------------ bounds
\* Threads calling into the set concurrently.
NumThreads == 2
\* Keys are 0..MaxKey.
MaxKey == 2
\* Bucket counts requested for the sets the threads work on.
MaxBucketCount == 2
\* Bucket counts tried on the constructor alone.
MaxRequested == 130
\* Widths at which size_t and unsigned int are modelled.
SizeTBits == 16
UIntBits == 8
\* Keys each worker thread inserts (README: items_per_thread).
ItemsPerThread == 3
\* Routing scenario: keys -MaxRouteKey..MaxRouteKey, bucket counts 2^0..2^MaxRouteLog.
\* README scenario: num_threads and items_total.
NumWorkers == 3
ItemsGiven == 8
MaxRouteKey == 4
\* Hardware thread counts tried when the default bucket count is used by calls.
MaxHw == 9
\* Length of the longest call sequence a thread issues in the finite runs.
MaxCalls == 2
MaxRouteLog == 2

Threads == 1..NumThreads
Workers == 1..NumWorkers
Keys == 0..MaxKey
NoItem == -1

SizeTMod == 2^SizeTBits
UIntMax == 2^UIntBits - 1

\* ------------------------------------------------------- bit operations
RECURSIVE BitAnd(_, _)
BitAnd(a, b) ==
    IF a = 0 \/ b = 0 THEN 0
    ELSE (a % 2) * (b % 2) + 2 * BitAnd(a \div 2, b \div 2)

RECURSIVE BitOr(_, _)
BitOr(a, b) ==
    IF a = 0 THEN b
    ELSE IF b = 0 THEN a
    ELSE (IF a % 2 = 1 \/ b % 2 = 1 THEN 1 ELSE 0) + 2 * BitOr(a \div 2, b \div 2)

ShiftRight(n, k) == IF k >= SizeTBits THEN 0 ELSE n \div (2^k)

\* static_cast<size_t>(item): the key's unsigned bit pattern.
ToSizeT(item) == item % SizeTMod

\* ------------------------------------------- VelocitySet private helpers
\* Variant: tests evenness instead of a single set bit.
is_power_of_two_even(n) == (n > 0) /\ (n % 2 = 0)
is_power_of_two(n) == (n > 0) /\ (BitAnd(n, (n - 1) % SizeTMod) = 0)

OrShift(n, k) == BitOr(n, ShiftRight(n, k))

\* Variant: no rounding up.
next_power_of_two_none(n) == IF n = 0 THEN 1 ELSE n
next_power_of_two(n) ==
    IF n = 0 THEN 1
    ELSE LET n0 == (n - 1) % SizeTMod
             n1 == OrShift(n0, 1)
             n2 == OrShift(n1, 2)
             n3 == OrShift(n2, 4)
             n4 == OrShift(n3, 8)
             n5 == OrShift(n4, 16)
             n6 == IF SizeTBits > 32 THEN OrShift(n5, 32) ELSE n5
         IN (n6 + 1) % SizeTMod

Max(a, b) == IF a < b THEN b ELSE a

\* Variant: hw_threads * 16 is used whatever hw_threads is.
calculate_default_buckets_unguarded(hw) ==
    next_power_of_two(Max(128, (hw * 16) % (UIntMax + 1)))
calculate_default_buckets(hw) ==
    LET desired == IF hw > 0 /\ hw < (UIntMax \div 16)
                   THEN Max(128, (hw * 16) % (UIntMax + 1))
                   ELSE 128
    IN next_power_of_two(desired)

\* Variant: the key's magnitude is masked instead of its unsigned bit pattern.
hash_to_index_abs(item, mask) == BitAnd(IF item < 0 THEN 0 - item ELSE item, mask)
\* hash_to_index(item): static_cast<size_t>(item) & bucket_mask_
hash_to_index(item, mask) == BitAnd(ToSizeT(item), mask)

\* ------------------------------------------------------- SpinLock, Bucket
\* Variant: the set is not atomic with the test, the old value is lost.
test_and_set_racy(flag) == [old |-> FALSE, new |-> TRUE]
\* atomic_flag::test_and_set: returns the old value, leaves the flag set.
\* Variant: the old value is reported as set whatever it was.
test_and_set_stuck(flag) == [old |-> TRUE, new |-> TRUE]
test_and_set(flag) == [old |-> flag, new |-> TRUE]

\* Variants of the std::unordered_set operations: an insert that drops the
\* other keys, an erase that erases nothing, an erase that takes the first
\* key when the item is absent, a count and a size that only test emptiness.
set_insert_replace(s, item) == {item}
set_erase_nothing(s, item) == s
set_count_any(s, item) == IF s # {} THEN 1 ELSE 0
set_size_nonempty(s) == IF s = {} THEN 0 ELSE 1
set_erase_first(s, item) ==
    IF item \in s \/ s = {} THEN s \ {item}
    ELSE s \ {CHOOSE x \in s : \A y \in s : x <= y}

\* std::unordered_set operations used by the set.
set_insert(s, item) == s \cup {item}
set_erase(s, item) == s \ {item}
set_count(s, item) == IF item \in s THEN 1 ELSE 0
\* Variant: clear() leaves the keys where they are.
set_clear_keep(s) == s
set_clear(s) == {}
set_size(s) == Cardinality(s)

\* Variant: the flag is left set.
flag_clear_forgotten(flag) == flag
\* atomic_flag::clear
flag_clear(flag) == FALSE

\* Bucket(): an unlocked lock and an empty unordered_set.
NewBucket == [flag |-> FALSE, data_set |-> {}]

\* Variant: find reports a hit whenever the set is not empty.
set_find_any(s, item) == s # {}
\* bucket.set.find(item) != bucket.set.end()
set_find(s, item) == item \in s

\* Impl1::ConcurrentSet::bucketIndex: static_cast<size_t>(item) & (buckets_.size() - 1)
bucketIndex(item, size) == BitAnd(ToSizeT(item), (size - 1) % SizeTMod)

\* Impl1::Bucket as the vector's constructor makes it.
Impl1NewBucket == [flag |-> FALSE, set |-> {}]

\* Variant: the source's lock state travels with the keys.
Bucket_move_with_lock(src) == [flag |-> src.flag, data_set |-> src.data_set]
\* Bucket(Bucket&& other): lock(), data_set(std::move(other.data_set)).
Bucket_move(src) == [flag |-> FALSE, data_set |-> src.data_set]

\* Bucket& operator=(Bucket&& other): unless other is this very bucket the
\* keys are taken from other; the lock member is not assigned.
Bucket_move_assign(dst, src, same) ==
    IF same THEN dst ELSE [flag |-> dst.flag, data_set |-> src.data_set]

\* ------------------------------------------------------------ constructor
\* VelocitySet(bucket_count): the members after construction, or the throw.
Constructor(bucket_count, hw) ==
    IF bucket_count # 0 /\ ~is_power_of_two(bucket_count)
    THEN [threw |-> TRUE, count |-> 0, mask |-> 0, buckets |-> << >>]
    ELSE LET c == IF bucket_count = 0 THEN calculate_default_buckets(hw)
                  ELSE bucket_count
         IN [threw |-> FALSE, count |-> c, mask |-> c - 1,
             buckets |-> [b \in 0..(c - 1) |-> NewBucket]]

\* ------------------------------------------------------------------ state
VARIABLES
    ctor_state,        \* "pending" | "constructed" | "threw"
    arg_bucket_count,  \* the constructor's argument
    hw_threads,        \* std::thread::hardware_concurrency()
    buckets_count_,    \* VelocitySet::buckets_count_
    bucket_mask_,      \* VelocitySet::bucket_mask_
    buckets_,          \* VelocitySet::buckets_ : index -> [flag, data_set]
    pc,                \* per thread: "idle" | "lock" | "cs" | "unlock"
    op,                \* per thread: the public operation entered last
    item,              \* per thread: its argument
    i,                 \* per thread: loop index of Clear / GetApproximateSize
    total_size,        \* per thread: GetApproximateSize's accumulator / result
    exists,            \* per thread: Contains' result
    held,              \* per thread: indices of the bucket locks it holds
    ins_last,          \* history: per key, the last Insert/Remove of it to take the lock is an Insert
    wiped,             \* history: per key, a Clear took its bucket's lock since that Insert
    prev_call,         \* sequential caller: the call completed before last_call
    last_call,         \* sequential caller: the last completed call and its result
    before,            \* sequential caller: the buckets' keys when the call began
    abs_set,           \* sequential caller: keys inserted and not removed or cleared since
    phase,             \* worker threads: "insert" | "check" | "remove" | "done"
    next_i,            \* worker threads: loop variable i of the worker lambda
    joined,            \* worker threads: the main thread has joined them all
    start_,            \* two-call scenario: buckets_ before the two calls
    plan,              \* scenarios: per thread, the call it makes, once
    sized,             \* size scan: per bucket visited, its size when the scan took its lock
    totals,            \* size scan: the set's total sizes at the instants since the call
    calls_left,        \* finite runs: per thread, the calls it has yet to issue
    snap,              \* contention: the set and the threads as they were at one failed poll
    polled,            \* contention: the waiting thread has polled again since
    passed,            \* contention: threads that took and released the lock since
    other,             \* bucket move: the source Bucket
    this_,             \* bucket move: the Bucket being made, << >> before
    moved_keys,        \* bucket move: <<the source's keys before the move>>, << >> before
    impl1_buckets_,    \* Impl1::ConcurrentSet::buckets_ : index -> [flag, set]
    impl1_pc,          \* Impl1, per thread: "idle" | "lock" | "cs" | "unlock"
    impl1_op,          \* Impl1, per thread: "Include" | "Exclude" | "Contains" | "none"
    impl1_item,        \* Impl1, per thread: the argument
    impl1_exists       \* Impl1, per thread: Contains' local exists

Main == 0
AllThreads == {Main} \cup Threads \cup Workers

KeyOps == {"Insert", "Remove", "Contains"}
ScanOps == {"Clear", "GetApproximateSize"}
Ops == KeyOps \cup ScanOps

setVars == <<ctor_state, arg_bucket_count, hw_threads, buckets_count_, bucket_mask_, buckets_>>
threadVars == <<pc, op, item, i, total_size, exists, held>>
coreVars == <<setVars, threadVars>>
keyVars == <<ins_last, wiped>>
seqVars == <<prev_call, last_call, before, abs_set>>
workVars == <<phase, next_i, joined>>
commVars == <<start_, plan>>
loopVars == <<snap, polled, passed>>
moveVars == <<other, this_, moved_keys>>
impl1Vars == <<impl1_buckets_, impl1_pc, impl1_op, impl1_item, impl1_exists>>
scenVars == <<sized, totals, calls_left, loopVars, moveVars, impl1Vars>>

\* The members as the constructor leaves them, no thread inside a call.
Constructed(n, hw) ==
    LET c == Constructor(n, hw)
    IN /\ ~c.threw
       /\ ctor_state = "constructed"
       /\ arg_bucket_count = n
       /\ hw_threads = hw
       /\ buckets_count_ = c.count
       /\ bucket_mask_ = c.mask
       /\ buckets_ = c.buckets

ThreadsIdle ==
    /\ pc = [t \in AllThreads |-> "idle"]
    /\ op = [t \in AllThreads |-> "none"]
    /\ item = [t \in AllThreads |-> NoItem]
    /\ i = [t \in AllThreads |-> 0]
    /\ total_size = [t \in AllThreads |-> 0]
    /\ exists = [t \in AllThreads |-> FALSE]
    /\ held = [t \in AllThreads |-> {}]

\* Variant: the key's routing is lost, every key operation goes to bucket 0.
get_bucket_unmasked(t) ==
    IF op[t] \in ScanOps THEN i[t] ELSE 0

\* get_bucket(item) for the key operations, buckets_[i] for the scans.
get_bucket(t) ==
    IF op[t] \in ScanOps THEN i[t] ELSE hash_to_index(item[t], bucket_mask_)

\* ---------------------------------------------------------------- actions
\* Entry of a public operation: locals initialised, the loop condition of a
\* scan tested once (i = 0 < buckets_count_).
Call(t, o, k) ==
    /\ ctor_state = "constructed"
    /\ pc[t] = "idle"
    /\ op' = [op EXCEPT ![t] = o]
    /\ item' = [item EXCEPT ![t] = IF o \in KeyOps THEN k ELSE NoItem]
    /\ i' = [i EXCEPT ![t] = 0]
    /\ total_size' = [total_size EXCEPT ![t] = 0]
    /\ exists' = [exists EXCEPT ![t] = FALSE]
    /\ pc' = [pc EXCEPT ![t] = IF o \in ScanOps /\ ~(0 < buckets_count_)
                               THEN "idle" ELSE "lock"]
    /\ UNCHANGED <<setVars, held>>

\* SpinLock::lock, one poll that finds the flag clear: the lock is acquired.
LockAcquire(t) ==
    /\ pc[t] = "lock"
    /\ LET b == get_bucket(t)
           r == test_and_set(buckets_[b].flag)
       IN /\ ~r.old
          /\ buckets_' = [buckets_ EXCEPT ![b].flag = r.new]
          /\ held' = [held EXCEPT ![t] = @ \cup {b}]
    /\ pc' = [pc EXCEPT ![t] = "cs"]
    /\ UNCHANGED <<ctor_state, arg_bucket_count, hw_threads, buckets_count_, bucket_mask_>>
    /\ UNCHANGED <<op, item, i, total_size, exists>>

\* SpinLock::lock, one poll that finds the flag set: _mm_pause and poll again.
LockSpin(t) ==
    /\ pc[t] = "lock"
    /\ LET b == get_bucket(t)
           r == test_and_set(buckets_[b].flag)
       IN /\ r.old
          /\ buckets_' = [buckets_ EXCEPT ![b].flag = r.new]
    /\ UNCHANGED <<ctor_state, arg_bucket_count, hw_threads, buckets_count_, bucket_mask_>>
    /\ UNCHANGED threadVars

\* The statement between lock() and unlock() of the operation the thread is in.
Access(t) ==
    /\ pc[t] = "cs"
    /\ LET b == get_bucket(t)
           s == buckets_[b].data_set
       IN CASE op[t] = "Insert" ->
                 /\ buckets_' = [buckets_ EXCEPT ![b].data_set = set_insert(s, item[t])]
                 /\ UNCHANGED <<exists, total_size>>
            [] op[t] = "Remove" ->
                 /\ buckets_' = [buckets_ EXCEPT ![b].data_set = set_erase(s, item[t])]
                 /\ UNCHANGED <<exists, total_size>>
            [] op[t] = "Contains" ->
                 /\ exists' = [exists EXCEPT ![t] = (set_count(s, item[t]) > 0)]
                 /\ UNCHANGED <<buckets_, total_size>>
            [] op[t] = "Clear" ->
                 /\ buckets_' = [buckets_ EXCEPT ![b].data_set = set_clear(s)]
                 /\ UNCHANGED <<exists, total_size>>
            [] op[t] = "GetApproximateSize" ->
                 /\ total_size' = [total_size EXCEPT ![t] = (@ + set_size(s)) % SizeTMod]
                 /\ UNCHANGED <<buckets_, exists>>
    /\ pc' = [pc EXCEPT ![t] = "unlock"]
    /\ UNCHANGED <<ctor_state, arg_bucket_count, hw_threads, buckets_count_, bucket_mask_>>
    /\ UNCHANGED <<op, item, i, held>>

\* Variant: a scan keeps each lock and releases them all after its loop.
Unlock_deferred(t) ==
    /\ pc[t] = "unlock"
    /\ IF op[t] \in ScanOps /\ i[t] + 1 < buckets_count_
       THEN /\ i' = [i EXCEPT ![t] = @ + 1]
            /\ pc' = [pc EXCEPT ![t] = "lock"]
            /\ UNCHANGED <<buckets_, held, op, item, total_size, exists>>
       ELSE /\ buckets_' = [b \in DOMAIN buckets_ |->
                              IF b \in held[t] THEN [buckets_[b] EXCEPT !.flag = FALSE]
                              ELSE buckets_[b]]
            /\ held' = [held EXCEPT ![t] = {}]
            /\ i' = [i EXCEPT ![t] = 0]
            /\ pc' = [pc EXCEPT ![t] = "idle"]
            /\ op' = [op EXCEPT ![t] = "none"]
            /\ item' = [item EXCEPT ![t] = NoItem]
            /\ total_size' = [total_size EXCEPT ![t] = 0]
            /\ exists' = [exists EXCEPT ![t] = FALSE]
    /\ UNCHANGED <<ctor_state, arg_bucket_count, hw_threads, buckets_count_, bucket_mask_>>

\* SpinLock::unlock, then the return of a key operation, or ++i and the loop
\* test of a scan. The locals die with the return.
Unlock(t) ==
    /\ pc[t] = "unlock"
    /\ LET b == get_bucket(t)
       IN /\ buckets_' = [buckets_ EXCEPT ![b].flag = flag_clear(@)]
          /\ held' = [held EXCEPT ![t] = @ \ {b}]
    /\ IF op[t] \in ScanOps /\ i[t] + 1 < buckets_count_
       THEN /\ i' = [i EXCEPT ![t] = @ + 1]
            /\ pc' = [pc EXCEPT ![t] = "lock"]
            /\ UNCHANGED <<op, item, total_size, exists>>
       ELSE /\ i' = [i EXCEPT ![t] = 0]
            /\ pc' = [pc EXCEPT ![t] = "idle"]
            /\ op' = [op EXCEPT ![t] = "none"]
            /\ item' = [item EXCEPT ![t] = NoItem]
            /\ total_size' = [total_size EXCEPT ![t] = 0]
            /\ exists' = [exists EXCEPT ![t] = FALSE]
    /\ UNCHANGED <<ctor_state, arg_bucket_count, hw_threads, buckets_count_, bucket_mask_>>

\* The thread has its result and has only unlock() and the return left.
Returning(t) ==
    /\ pc[t] = "unlock"
    /\ ~(op[t] \in ScanOps /\ i[t] + 1 < buckets_count_)

\* GetBucketCount()
GetBucketCount == buckets_count_

\* The keys stored anywhere in the set.
Contents == UNION {buckets_[b].data_set : b \in DOMAIN buckets_}

vars == <<coreVars, keyVars, seqVars, workVars, commVars, scenVars>>

\* Per bucket, the keys it stores.
DataOf == [b \in DOMAIN buckets_ |-> buckets_[b].data_set]

NoCall == [op |-> "none", item |-> NoItem, exists |-> FALSE, total |-> 0,
           before |-> << >>, after |-> << >>]

\* First key and end of worker t's range (README: t * items_per_thread, 0-based t).
start_item(t) == (t - 1) * ItemsPerThread
end_item(t) == t * ItemsPerThread
ItemsTotal == NumThreads * ItemsPerThread

ScenInit ==
    /\ sized = << >>
    /\ totals = {}
    /\ calls_left = [t \in AllThreads |-> MaxCalls]
    /\ snap = << >>
    /\ polled = FALSE
    /\ passed = {}

MoveInit ==
    /\ other = NewBucket
    /\ this_ = << >>
    /\ moved_keys = << >>

CallersInit ==
    /\ ScenInit
    /\ ins_last = [k \in Keys |-> FALSE]
    /\ wiped = [k \in Keys |-> FALSE]
    /\ prev_call = [op |-> "none", item |-> NoItem]
    /\ last_call = NoCall
    /\ before = << >>
    /\ abs_set = {}
    /\ phase = [t \in Threads |-> "insert"]
    /\ next_i = [t \in Threads |-> start_item(t)]
    /\ joined = FALSE
    /\ start_ = << >>
    /\ plan = << >>

Impl1ThreadsIdle ==
    /\ impl1_pc = [t \in AllThreads |-> "idle"]
    /\ impl1_op = [t \in AllThreads |-> "none"]
    /\ impl1_item = [t \in AllThreads |-> NoItem]
    /\ impl1_exists = [t \in AllThreads |-> FALSE]

\* No Impl1::ConcurrentSet exists.
Impl1None ==
    /\ impl1_buckets_ = << >>
    /\ Impl1ThreadsIdle

HistoryInit ==
    /\ CallersInit
    /\ MoveInit
    /\ Impl1None

\* --------------------------------------------- Spec: any calls, any threads
Init ==
    /\ \E n \in 1..MaxBucketCount : Constructed(n, 0)
    /\ ThreadsIdle
    /\ HistoryInit

FreeCall(t) ==
    \/ \E o \in KeyOps, k \in Keys : Call(t, o, k)
    \/ \E o \in ScanOps : Call(t, o, NoItem)

histVars == <<keyVars, seqVars, workVars, commVars, scenVars>>

Next ==
    \E t \in Threads :
        \/ FreeCall(t) /\ UNCHANGED histVars
        \/ LockAcquire(t) /\ UNCHANGED histVars
        \/ LockSpin(t) /\ UNCHANGED histVars
        \/ Access(t) /\ UNCHANGED histVars
        \/ Unlock(t) /\ UNCHANGED histVars

Spec == Init /\ [][Next]_vars

\* ------------------- SpecOrder: the mutators and Contains, lock order kept
\* The order in which calls take a bucket's lock, recorded per key.
OrderAcquire(t) ==
    /\ LockAcquire(t)
    /\ LET b == get_bucket(t)
       IN CASE op[t] = "Insert" ->
                 /\ ins_last' = [ins_last EXCEPT ![item[t]] = TRUE]
                 /\ wiped' = [wiped EXCEPT ![item[t]] = FALSE]
            [] op[t] = "Remove" ->
                 /\ ins_last' = [ins_last EXCEPT ![item[t]] = FALSE]
                 /\ wiped' = [wiped EXCEPT ![item[t]] = FALSE]
            [] op[t] = "Clear" ->
                 /\ wiped' = [k \in Keys |->
                                IF hash_to_index(k, bucket_mask_) = b /\ ins_last[k]
                                THEN TRUE ELSE wiped[k]]
                 /\ UNCHANGED ins_last
            [] OTHER -> UNCHANGED <<ins_last, wiped>>
    /\ UNCHANGED <<seqVars, workVars, commVars, scenVars>>

OrderCall(t) ==
    /\ \/ \E o \in KeyOps, k \in Keys : Call(t, o, k)
       \/ Call(t, "Clear", NoItem)
    /\ UNCHANGED histVars

NextOrder ==
    \E t \in Threads :
        \/ OrderCall(t)
        \/ OrderAcquire(t)
        \/ LockSpin(t) /\ UNCHANGED histVars
        \/ Access(t) /\ UNCHANGED histVars
        \/ Unlock(t) /\ UNCHANGED histVars

SpecOrder == Init /\ [][NextOrder]_vars

\* ------------------------- SpecSeq: one thread, one call after the other
\* The main thread enters a call; it notes what the buckets hold.
SeqCall ==
    /\ \/ \E o \in KeyOps, k \in Keys : Call(Main, o, k)
       \/ \E o \in ScanOps : Call(Main, o, NoItem)
    /\ before' = DataOf
    /\ UNCHANGED <<prev_call, last_call, abs_set>>
    /\ UNCHANGED <<keyVars, workVars, commVars, scenVars>>

\* unlock(); on the return the caller has the result, and counts the key as
\* inserted, removed, or all keys as cleared.
SeqUnlock ==
    /\ Unlock(Main)
    /\ IF Returning(Main)
       THEN /\ prev_call' = [op |-> last_call.op, item |-> last_call.item]
            /\ last_call' = [op |-> op[Main], item |-> item[Main],
                             exists |-> exists[Main], total |-> total_size[Main],
                             before |-> before, after |-> DataOf]
            /\ abs_set' = CASE op[Main] = "Insert" -> abs_set \cup {item[Main]}
                            [] op[Main] = "Remove" -> abs_set \ {item[Main]}
                            [] op[Main] = "Clear" -> {}
                            [] OTHER -> abs_set
       ELSE UNCHANGED <<prev_call, last_call, abs_set>>
    /\ UNCHANGED before
    /\ UNCHANGED <<keyVars, workVars, commVars, scenVars>>

InitSeq ==
    /\ \E n \in 1..MaxBucketCount : Constructed(n, 0)
    /\ ThreadsIdle
    /\ HistoryInit

\* No other thread exists, so a poll of a lock never finds it held.
NextSeq ==
    \/ SeqCall
    \/ LockAcquire(Main) /\ UNCHANGED histVars
    \/ Access(Main) /\ UNCHANGED histVars
    \/ SeqUnlock

SpecSeq == InitSeq /\ [][NextSeq]_vars

\* ------------- SpecWorkers: T threads insert disjoint ranges, main joins
\* Worker lambda, phase 1: vset.Insert(i) for i in [start_item, end_item).
WorkerInsert(t) ==
    /\ phase[t] = "insert"
    /\ next_i[t] < end_item(t)
    /\ Call(t, "Insert", next_i[t])
    /\ UNCHANGED histVars

\* unlock(); when Insert returns, ++i.
WorkerUnlock(t) ==
    /\ Unlock(t)
    /\ next_i' = [next_i EXCEPT ![t] = @ + 1]
    /\ UNCHANGED <<phase, joined>>
    /\ UNCHANGED <<keyVars, seqVars, commVars, scenVars>>

\* The loop ends and the thread function returns.
WorkerDone(t) ==
    /\ phase[t] = "insert"
    /\ pc[t] = "idle"
    /\ ~(next_i[t] < end_item(t))
    /\ phase' = [phase EXCEPT ![t] = "done"]
    /\ UNCHANGED <<next_i, joined>>
    /\ UNCHANGED <<coreVars, keyVars, seqVars, commVars, scenVars>>

\* th.join() for every thread.
Join ==
    /\ ~joined
    /\ \A t \in Threads : phase[t] = "done"
    /\ joined' = TRUE
    /\ UNCHANGED <<phase, next_i>>
    /\ UNCHANGED <<coreVars, keyVars, seqVars, commVars, scenVars>>

\* After the joins the main thread asks for any key of [0, N).
MainContains ==
    /\ joined
    /\ \E k \in 0..(ItemsTotal - 1) : Call(Main, "Contains", k)
    /\ UNCHANGED histVars

\* The main thread calls only after the joins, when no lock is held, so its
\* polls never fail.
NextWorkers ==
    \/ \E t \in Threads :
          \/ WorkerInsert(t)
          \/ LockAcquire(t) /\ UNCHANGED histVars
          \/ LockSpin(t) /\ UNCHANGED histVars
          \/ Access(t) /\ UNCHANGED histVars
          \/ WorkerUnlock(t)
          \/ WorkerDone(t)
    \/ Join
    \/ MainContains
    \/ LockAcquire(Main) /\ UNCHANGED histVars
    \/ Access(Main) /\ UNCHANGED histVars
    \/ Unlock(Main) /\ UNCHANGED histVars

SpecWorkers == Init /\ [][NextWorkers]_vars

\* ------------- SpecTwoCalls: Insert(a) by one thread, Remove(b) by another
\* Buckets holding the keys of S, each key in the bucket it routes to.
Holding(S, count, mask) ==
    [b \in 0..(count - 1) |->
        [flag |-> FALSE, data_set |-> {k \in S : hash_to_index(k, mask) = b}]]

\* Insert(item) and Remove(item) run alone, from call to return.
Insert_alone(bs, k, mask) ==
    [bs EXCEPT ![hash_to_index(k, mask)].data_set = set_insert(@, k)]
Remove_alone(bs, k, mask) ==
    [bs EXCEPT ![hash_to_index(k, mask)].data_set = set_erase(@, k)]

InitTwoCalls ==
    /\ \E n \in 1..MaxBucketCount :
          LET c == Constructor(n, 0)
          IN /\ ~c.threw
             /\ ctor_state = "constructed"
             /\ arg_bucket_count = n
             /\ hw_threads = 0
             /\ buckets_count_ = c.count
             /\ bucket_mask_ = c.mask
             /\ \E S \in SUBSET Keys : buckets_ = Holding(S, c.count, c.mask)
    /\ ThreadsIdle
    /\ ScenInit
    /\ MoveInit
    /\ Impl1None
    /\ ins_last = [k \in Keys |-> FALSE]
    /\ wiped = [k \in Keys |-> FALSE]
    /\ prev_call = [op |-> "none", item |-> NoItem]
    /\ last_call = NoCall
    /\ before = << >>
    /\ abs_set = {}
    /\ phase = [t \in Threads |-> "insert"]
    /\ next_i = [t \in Threads |-> start_item(t)]
    /\ joined = FALSE
    /\ start_ = buckets_
    /\ \E a, b \in Keys :
          plan = [t \in {1, 2} |->
                    [op |-> IF t = 1 THEN "Insert" ELSE "Remove",
                     item |-> IF t = 1 THEN a ELSE b,
                     called |-> FALSE]]

PlannedCall(t) ==
    /\ ~plan[t].called
    /\ Call(t, plan[t].op, plan[t].item)
    /\ plan' = [plan EXCEPT ![t].called = TRUE]
    /\ UNCHANGED start_
    /\ UNCHANGED <<keyVars, seqVars, workVars, scenVars>>

NextTwoCalls ==
    \E t \in {1, 2} :
        \/ PlannedCall(t)
        \/ LockAcquire(t) /\ UNCHANGED histVars
        \/ LockSpin(t) /\ UNCHANGED histVars
        \/ Access(t) /\ UNCHANGED histVars
        \/ Unlock(t) /\ UNCHANGED histVars

SpecTwoCalls == InitTwoCalls /\ [][NextTwoCalls]_vars

\* ---------------------------------------------- SpecCtor: the constructor
InitCtor ==
    /\ ctor_state = "pending"
    /\ arg_bucket_count \in 0..MaxRequested
    /\ hw_threads \in 0..UIntMax
    /\ buckets_count_ = 0
    /\ bucket_mask_ = 0
    /\ buckets_ = << >>
    /\ ThreadsIdle
    /\ HistoryInit

Construct ==
    /\ ctor_state = "pending"
    /\ LET c == Constructor(arg_bucket_count, hw_threads)
       IN IF c.threw
          THEN /\ ctor_state' = "threw"
               /\ UNCHANGED <<buckets_count_, bucket_mask_, buckets_>>
          ELSE /\ ctor_state' = "constructed"
               /\ buckets_count_' = c.count
               /\ bucket_mask_' = c.mask
               /\ buckets_' = c.buckets
    /\ UNCHANGED <<arg_bucket_count, hw_threads>>
    /\ UNCHANGED <<threadVars, histVars>>

NextCtor == Construct

SpecCtor == InitCtor /\ [][NextCtor]_vars

\* --------------- SpecRoute: one caller, keys of either sign, up to 2^MaxRouteLog buckets
RouteKeys == (0 - MaxRouteKey)..MaxRouteKey
RouteBucketCounts == {2^e : e \in 0..MaxRouteLog}

InitRoute ==
    /\ \E n \in RouteBucketCounts : Constructed(n, 0)
    /\ ThreadsIdle
    /\ HistoryInit

\* The caller inserts or looks up any key.
RouteCall ==
    /\ \E o \in {"Insert", "Contains"}, k \in RouteKeys : Call(Main, o, k)
    /\ UNCHANGED histVars

\* unlock(); when Insert returns the caller counts the key as inserted.
RouteUnlock ==
    /\ Unlock(Main)
    /\ abs_set' = IF op[Main] = "Insert" THEN abs_set \cup {item[Main]} ELSE abs_set
    /\ UNCHANGED <<prev_call, last_call, before>>
    /\ UNCHANGED <<keyVars, workVars, commVars, scenVars>>

\* No other thread exists, so a poll of a lock never finds it held.
NextRoute ==
    \/ RouteCall
    \/ LockAcquire(Main) /\ UNCHANGED histVars
    \/ Access(Main) /\ UNCHANGED histVars
    \/ RouteUnlock

SpecRoute == InitRoute /\ [][NextRoute]_vars

\* ------- SpecClear: one Clear by thread 1 while thread 2 makes key operations
Clearer == 1
KeyCaller == 2

\* Clear has emptied bucket b: its loop is past b, or at b with clear() done,
\* or it has returned.
Cleared(b) ==
    \/ op[Clearer] = "Clear" /\ i[Clearer] > b
    \/ op[Clearer] = "Clear" /\ i[Clearer] = b /\ pc[Clearer] = "unlock"
    \/ plan[Clearer].called /\ pc[Clearer] = "idle"

InitClear ==
    /\ \E n \in 1..MaxBucketCount, S \in SUBSET Keys :
          LET c == Constructor(n, 0)
          IN /\ ~c.threw
             /\ ctor_state = "constructed"
             /\ arg_bucket_count = n
             /\ hw_threads = 0
             /\ buckets_count_ = c.count
             /\ bucket_mask_ = c.mask
             /\ buckets_ = Holding(S, c.count, c.mask)
             /\ ins_last = [k \in Keys |-> k \in S]
    /\ ThreadsIdle
    /\ ScenInit
    /\ MoveInit
    /\ Impl1None
    /\ wiped = [k \in Keys |-> FALSE]
    /\ prev_call = [op |-> "none", item |-> NoItem]
    /\ last_call = NoCall
    /\ before = << >>
    /\ abs_set = {}
    /\ phase = [t \in Threads |-> "insert"]
    /\ next_i = [t \in Threads |-> start_item(t)]
    /\ joined = FALSE
    /\ start_ = buckets_
    /\ plan = [t \in {Clearer} |-> [op |-> "Clear", item |-> NoItem, called |-> FALSE]]

KeyCall ==
    /\ \E o \in KeyOps, k \in Keys : Call(KeyCaller, o, k)
    /\ UNCHANGED histVars

\* The key operation's statement under the lock; noted with it: whether the
\* key would be stored had no Clear run (ins_last), and the keys inserted
\* into a bucket that Clear had emptied, not removed since (abs_set).
KeyAccess ==
    /\ Access(KeyCaller)
    /\ LET k == item[KeyCaller]
           b == get_bucket(KeyCaller)
       IN CASE op[KeyCaller] = "Insert" ->
                 /\ ins_last' = [ins_last EXCEPT ![k] = TRUE]
                 /\ abs_set' = IF Cleared(b) THEN abs_set \cup {k} ELSE abs_set
            [] op[KeyCaller] = "Remove" ->
                 /\ ins_last' = [ins_last EXCEPT ![k] = FALSE]
                 /\ abs_set' = abs_set \ {k}
            [] OTHER -> UNCHANGED <<ins_last, abs_set>>
    /\ UNCHANGED <<wiped, prev_call, last_call, before>>
    /\ UNCHANGED <<workVars, commVars, scenVars>>

NextClear ==
    \/ PlannedCall(Clearer)
    \/ KeyCall
    \/ KeyAccess
    \/ Access(Clearer) /\ UNCHANGED histVars
    \/ \E t \in {Clearer, KeyCaller} :
          \/ LockAcquire(t) /\ UNCHANGED histVars
          \/ LockSpin(t) /\ UNCHANGED histVars
          \/ Unlock(t) /\ UNCHANGED histVars

SpecClear == InitClear /\ [][NextClear]_vars

\* ------------------------------------------------------------------ claims
HoldersOf(b) == {t \in AllThreads : b \in held[t]}

\* C1: whatever the interleaving of the five operations, a bucket's SpinLock
\* has at most one holder at a time (and its flag is set while it has one),
\* and a thread that is at, or has just made, its access to a bucket's
\* data_set holds that bucket's lock.
C1_MutualExclusion ==
    /\ \A b \in DOMAIN buckets_ :
          /\ Cardinality(HoldersOf(b)) <= 1
          /\ HoldersOf(b) # {} => buckets_[b].flag
    /\ \A t \in AllThreads :
          pc[t] \in {"cs", "unlock"} => get_bucket(t) \in held[t]

\* C1 witness: one thread is inside a bucket's critical section while another
\* polls the same bucket's lock.
C1_Witness ==
    \E t1, t2 \in Threads :
        /\ t1 # t2
        /\ pc[t1] = "cs"
        /\ pc[t2] = "lock"
        /\ get_bucket(t1) = get_bucket(t2)

InCall(t) == pc[t] # "idle"
CanProgress(t) == ENABLED (LockAcquire(t) \/ Access(t) \/ Unlock(t))

\* C4: no deadlock: whenever some thread is inside a call, some thread can
\* take a step that is not a failed poll of a held lock.
C4_NoDeadlock ==
    (\E t \in Threads : InCall(t)) => (\E t \in Threads : CanProgress(t))

\* C4 witness: every thread is inside a call and one of them is kept waiting
\* by a held lock.
C4_Witness ==
    /\ \A t \in Threads : InCall(t)
    /\ \E t \in Threads : pc[t] = "lock" /\ buckets_[get_bucket(t)].flag

OneLockHeld(t) ==
    /\ Cardinality(held[t]) <= 1
    /\ op[t] \in KeyOps => held[t] \subseteq {hash_to_index(item[t], bucket_mask_)}
    /\ op[t] \in ScanOps => held[t] \subseteq {i[t]}
    /\ op[t] = "none" => held[t] = {}

ScanOrder(t) ==
    (op[t] \in ScanOps /\ i'[t] # i[t]) =>
        /\ held'[t] = {}
        /\ \/ i'[t] = i[t] + 1
           \/ pc'[t] = "idle" /\ i[t] = buckets_count_ - 1

\* C5: every thread holds at most one bucket lock, a key operation only that
\* of the bucket its key routes to, a scan only that of bucket i; a scan's i
\* goes up by one at a time from 0 to buckets_count_ - 1 and it holds no lock
\* when i changes.
C5_OneLockAtATime ==
    /\ [](\A t \in AllThreads : OneLockHeld(t))
    /\ [][\A t \in AllThreads : ScanOrder(t)]_vars

\* C5 witness: a scan holds the lock of a bucket after the first.
C5_Witness ==
    \E t \in Threads : op[t] \in ScanOps /\ i[t] > 0 /\ held[t] = {i[t]}

\* C2 as stated: a Contains(k) that has read its bucket returns true exactly
\* when the last Insert(k) or Remove(k) to take the bucket's lock before it is
\* an Insert(k) (false when there is none).
C2_LastWriteOnly ==
    \A t \in Threads :
        (op[t] = "Contains" /\ pc[t] = "unlock") => (exists[t] <=> ins_last[item[t]])

\* C2 amended: per key the calls take effect in the order in which they took
\* the bucket's lock; a Contains(k) returns true exactly when the last
\* Insert(k) or Remove(k) before it in that order is an Insert(k) and no Clear
\* has taken the lock of k's bucket since that Insert(k).
C2_LockOrder ==
    \A t \in Threads :
        (op[t] = "Contains" /\ pc[t] = "unlock") =>
            (exists[t] <=> (ins_last[item[t]] /\ ~wiped[item[t]]))

\* C2 witness: a Contains(k) returns true while another thread's Remove(k) is
\* already polling the lock it holds.
C2_Witness ==
    \E t1, t2 \in Threads :
        /\ op[t1] = "Contains" /\ pc[t1] = "unlock" /\ exists[t1]
        /\ op[t2] = "Remove" /\ pc[t2] = "lock" /\ item[t2] = item[t1]

KeysIn(data) == UNION {data[b] : b \in DOMAIN data}

RECURSIVE SumSizes(_, _)
SumSizes(data, bs) ==
    IF bs = {} THEN 0
    ELSE LET b == CHOOSE x \in bs : TRUE
         IN Cardinality(data[b]) + SumSizes(data, bs \ {b})

Consecutive(o1, o2) ==
    /\ prev_call.op = o1
    /\ last_call.op = o2

\* C6: single thread, any prior contents: a Contains(k) that follows an
\* Insert(k) returns true, a Contains(k) that follows a Remove(k) returns false.
C6_RoundTrip ==
    /\ (Consecutive("Insert", "Contains") /\ prev_call.item = last_call.item)
          => last_call.exists
    /\ (Consecutive("Remove", "Contains") /\ prev_call.item = last_call.item)
          => ~last_call.exists

\* C6 witness: Remove(k) then Contains(k) has returned false while another
\* key of k's bucket is still stored.
C6_Witness ==
    /\ Consecutive("Remove", "Contains")
    /\ prev_call.item = last_call.item
    /\ ~last_call.exists
    /\ last_call.after[hash_to_index(last_call.item, bucket_mask_)] # {}

\* C7: an Insert(k) into a set that holds k, and a Remove(k) from a set that
\* does not, return with every bucket's keys, and so the size, as they were;
\* k is still a member after the Insert.
C7_Idempotent ==
    /\ (last_call.op = "Insert" /\ last_call.item \in KeysIn(last_call.before)) =>
          /\ last_call.after = last_call.before
          /\ SumSizes(last_call.after, DOMAIN last_call.after)
               = SumSizes(last_call.before, DOMAIN last_call.before)
          /\ last_call.item \in
               last_call.after[hash_to_index(last_call.item, bucket_mask_)]
    /\ (last_call.op = "Remove" /\ last_call.item \notin KeysIn(last_call.before)) =>
          /\ last_call.after = last_call.before
          /\ SumSizes(last_call.after, DOMAIN last_call.after)
               = SumSizes(last_call.before, DOMAIN last_call.before)

\* C7 witness: Insert(k) returned on a set that held k and another key of the
\* same bucket.
C7_Witness ==
    /\ last_call.op = "Insert"
    /\ LET b == hash_to_index(last_call.item, bucket_mask_)
       IN /\ last_call.item \in last_call.before[b]
          /\ Cardinality(last_call.before[b]) >= 2

\* C9: with one caller, GetApproximateSize returns exactly the number of
\* distinct keys inserted and not removed or cleared since; right after a
\* Clear it returns 0 and Contains returns false for any key.
C9_ExactSize ==
    /\ last_call.op = "GetApproximateSize" => last_call.total = Cardinality(abs_set)
    /\ Consecutive("Clear", "GetApproximateSize") => last_call.total = 0
    /\ Consecutive("Clear", "Contains") => ~last_call.exists

\* C9 witness: GetApproximateSize returned the count of keys spread over two
\* buckets, one of them holding two keys.
C9_Witness ==
    /\ last_call.op = "GetApproximateSize"
    /\ last_call.total = 3
    /\ buckets_count_ = 2

\* C3: after T threads have each inserted their own range of N/T keys and have
\* been joined, Contains(k) returns true for every k of [0, N).
C3_NoLostInsert ==
    (op[Main] = "Contains" /\ pc[Main] = "unlock") => exists[Main]

\* C3 witness: the main thread's Contains of the last key returns true on a
\* set whose keys all share one bucket.
C3_Witness ==
    /\ op[Main] = "Contains"
    /\ pc[Main] = "unlock"
    /\ item[Main] = ItemsTotal - 1
    /\ exists[Main]
    /\ buckets_count_ = 1

TwoCallsDone == \A t \in {1, 2} : plan[t].called /\ pc[t] = "idle"

\* C10: for keys a and b of different buckets and any starting contents, when
\* the concurrent Insert(a) and Remove(b) have both returned the buckets hold
\* what Insert(a) then Remove(b), and what Remove(b) then Insert(a), run one
\* after the other leave.
C10_Commute ==
    (/\ TwoCallsDone
     /\ hash_to_index(plan[1].item, bucket_mask_) # hash_to_index(plan[2].item, bucket_mask_))
    => LET a == plan[1].item
           b == plan[2].item
       IN /\ buckets_ = Remove_alone(Insert_alone(start_, a, bucket_mask_), b, bucket_mask_)
          /\ buckets_ = Insert_alone(Remove_alone(start_, b, bucket_mask_), a, bucket_mask_)

\* C10 witness: both calls have returned, a was new, b was stored, and they
\* route to different buckets.
C10_Witness ==
    /\ TwoCallsDone
    /\ hash_to_index(plan[1].item, bucket_mask_) # hash_to_index(plan[2].item, bucket_mask_)
    /\ plan[1].item \notin KeysIn([b \in DOMAIN start_ |-> start_[b].data_set])
    /\ plan[2].item \in KeysIn([b \in DOMAIN start_ |-> start_[b].data_set])
    /\ buckets_ # start_

IsPowerOfTwo(n) == \E e \in 0..(SizeTBits - 1) : n = 2^e

\* C8: a constructor call with a non-zero bucket count that is not a power of
\* two throws and leaves no set; with a non-zero power of two it succeeds and
\* GetBucketCount() is that value.
C8_PowerOfTwoOnly ==
    (ctor_state # "pending" /\ arg_bucket_count # 0) =>
        IF IsPowerOfTwo(arg_bucket_count)
        THEN /\ ctor_state = "constructed"
             /\ GetBucketCount = arg_bucket_count
             /\ DOMAIN buckets_ = 0..(arg_bucket_count - 1)
        ELSE /\ ctor_state = "threw"
             /\ buckets_ = << >>

\* C8 witness: the constructor has thrown for bucket_count = 100.
C8_Witness ==
    /\ ctor_state = "threw"
    /\ arg_bucket_count = 100


\* The key's bits read as an unsigned number of size_t's width.
UnsignedBits(k) == IF k < 0 THEN k + SizeTMod ELSE k

\* C11: for every key, negative or not, the bucket whose lock a key operation
\* takes is the key's unsigned bit pattern AND (bucket count - 1), with the
\* bucket count given at construction, so the same on every call; it lies in
\* [0, bucket count); every inserted key is stored in that bucket and a
\* Contains of it returns true; with 4 buckets keys 0 and 4 are both in bucket 0.
C11_Routing ==
    /\ (op[Main] \in KeyOps /\ pc[Main] \in {"cs", "unlock"}) =>
          /\ held[Main] = {BitAnd(UnsignedBits(item[Main]), arg_bucket_count - 1)}
          /\ \A b \in held[Main] : 0 <= b /\ b < GetBucketCount
    /\ \A k \in abs_set :
          k \in buckets_[BitAnd(UnsignedBits(k), arg_bucket_count - 1)].data_set
    /\ (op[Main] = "Contains" /\ Returning(Main) /\ item[Main] \in abs_set) =>
          exists[Main]
    /\ (arg_bucket_count = 4 /\ {0, 4} \subseteq abs_set) =>
          {0, 4} \subseteq buckets_[0].data_set

\* C11 witness: 4 buckets, keys 0, 4 and -1 inserted, a Contains(4) returns
\* true, and -1 is stored in bucket 3.
C11_Witness ==
    /\ arg_bucket_count = 4
    /\ {0, 4, 0 - 1} \subseteq abs_set
    /\ op[Main] = "Contains" /\ Returning(Main) /\ item[Main] = 4 /\ exists[Main]
    /\ (0 - 1) \in buckets_[3].data_set


\* The keys of bucket b among those of S.
RoutedTo(S, b) == {k \in S : hash_to_index(k, bucket_mask_) = b}

\* C12: while a Clear runs, a bucket it has not emptied yet holds what it
\* would hold had no Clear been called, and a bucket it has emptied holds
\* exactly the keys inserted into it since and not removed; a Contains that
\* holds a bucket's lock answers from what the bucket holds then. So a key
\* inserted into an emptied bucket while Clear runs is stored when Clear
\* returns.
C12_ClearPerBucket ==
    /\ \A b \in DOMAIN buckets_ :
          buckets_[b].data_set =
              IF Cleared(b) THEN RoutedTo(abs_set, b)
              ELSE RoutedTo({k \in Keys : ins_last[k]}, b)
    /\ (op[KeyCaller] = "Contains" /\ pc[KeyCaller] = "unlock") =>
          (exists[KeyCaller] <=>
              item[KeyCaller] \in buckets_[get_bucket(KeyCaller)].data_set)
    /\ (plan[Clearer].called /\ pc[Clearer] = "idle") => abs_set \subseteq Contents

\* C12 witness: Clear is at its last unlock() before it returns, and bucket 0,
\* which it emptied, again stores a key it held at first, inserted meanwhile,
\* while a key of the set at first is gone.
C12_Witness ==
    /\ op[Clearer] = "Clear" /\ Returning(Clearer) /\ i[Clearer] > 0
    /\ \E k \in abs_set :
          /\ k \in buckets_[0].data_set
          /\ k \in start_[0].data_set
    /\ \E k \in Keys : k \in start_[0].data_set /\ k \notin Contents


\* ---- SpecSize: one GetApproximateSize by thread 1 while thread 2 inserts and removes
Sizer == 1

\* The number of keys the buckets bs store.
TotalOf(bs) == SumSizes([b \in DOMAIN bs |-> bs[b].data_set], DOMAIN bs)

\* GetApproximateSize is entered, once; the set's size at that instant is noted.
SizeCall ==
    /\ totals = {}
    /\ Call(Sizer, "GetApproximateSize", NoItem)
    /\ totals' = {TotalOf(buckets_)}
    /\ UNCHANGED <<sized, calls_left, loopVars, moveVars, impl1Vars>>
    /\ UNCHANGED <<keyVars, seqVars, workVars, commVars>>

\* bucket.lock.lock() succeeds; the bucket's size at that instant is noted.
SizeAcquire ==
    /\ LockAcquire(Sizer)
    /\ sized' = [b \in DOMAIN sized \cup {i[Sizer]} |->
                    IF b = i[Sizer] THEN Cardinality(buckets_[b].data_set)
                    ELSE sized[b]]
    /\ UNCHANGED <<totals, calls_left, loopVars, moveVars, impl1Vars>>
    /\ UNCHANGED <<keyVars, seqVars, workVars, commVars>>

MutCall ==
    /\ \E o \in {"Insert", "Remove"}, k \in Keys : Call(KeyCaller, o, k)
    /\ UNCHANGED histVars

\* insert / erase under the lock; while the scan runs the set's new size is noted.
MutAccess ==
    /\ Access(KeyCaller)
    /\ totals' = IF op[Sizer] = "GetApproximateSize"
                 THEN totals \cup {TotalOf(buckets_')} ELSE totals
    /\ UNCHANGED <<sized, calls_left, loopVars, moveVars, impl1Vars>>
    /\ UNCHANGED <<keyVars, seqVars, workVars, commVars>>

NextSize ==
    \/ SizeCall
    \/ SizeAcquire
    \/ MutCall
    \/ MutAccess
    \/ LockAcquire(KeyCaller) /\ UNCHANGED histVars
    \/ Access(Sizer) /\ UNCHANGED histVars
    \/ \E t \in {Sizer, KeyCaller} :
          \/ LockSpin(t) /\ UNCHANGED histVars
          \/ Unlock(t) /\ UNCHANGED histVars

SpecSize == Init /\ [][NextSize]_vars

RECURSIVE SumOver(_, _)
SumOver(f, D) ==
    IF D = {} THEN 0
    ELSE LET d == CHOOSE x \in D : TRUE
         IN f[d] + SumOver(f, D \ {d})

\* C13: GetApproximateSize visits the buckets in index order and what it has
\* added up, and returns, is the sum of the sizes each visited bucket had at
\* the instant the call took that bucket's lock.
C13_SumAtLock ==
    op[Sizer] = "GetApproximateSize" =>
        /\ DOMAIN sized = IF pc[Sizer] = "lock" THEN 0..(i[Sizer] - 1) ELSE 0..i[Sizer]
        /\ pc[Sizer] = "unlock" => total_size[Sizer] = SumOver(sized, DOMAIN sized)
        /\ pc[Sizer] = "cs" =>
              total_size[Sizer] = SumOver(sized, DOMAIN sized \ {i[Sizer]})

\* C13 witness: GetApproximateSize is about to return a value that the set's
\* total size has had at no instant since the call.
C13_Witness ==
    /\ op[Sizer] = "GetApproximateSize"
    /\ Returning(Sizer)
    /\ total_size[Sizer] \notin totals


\* ---------- SpecReadme: the README's worker lambda, both phases, and its checks
items_per_thread == ItemsGiven \div NumWorkers
\* start_item and end_item of the README's thread t (0-based there).
range_start(t) == (t - 1) * items_per_thread
range_end(t) == t * items_per_thread

InitReadme ==
    /\ \E n \in 1..MaxBucketCount : Constructed(n, 0)
    /\ ThreadsIdle
    /\ ScenInit
    /\ MoveInit
    /\ Impl1None
    /\ ins_last = [k \in Keys |-> FALSE]
    /\ wiped = [k \in Keys |-> FALSE]
    /\ prev_call = [op |-> "none", item |-> NoItem]
    /\ last_call = NoCall
    /\ before = << >>
    /\ abs_set = {}
    /\ phase = [t \in Workers |-> "insert"]
    /\ next_i = [t \in Workers |-> range_start(t)]
    /\ joined = FALSE
    /\ start_ = << >>
    /\ plan = << >>

\* Phase 1: vset.Insert(i).
ReadmeInsert(t) ==
    /\ phase[t] = "insert"
    /\ next_i[t] < range_end(t)
    /\ Call(t, "Insert", next_i[t])
    /\ UNCHANGED histVars

\* Phase 1's loop ends; phase 2 starts with i = start_item.
ReadmePhase2(t) ==
    /\ phase[t] = "insert"
    /\ pc[t] = "idle"
    /\ ~(next_i[t] < range_end(t))
    /\ phase' = [phase EXCEPT ![t] = "check"]
    /\ next_i' = [next_i EXCEPT ![t] = range_start(t)]
    /\ UNCHANGED joined
    /\ UNCHANGED <<coreVars, keyVars, seqVars, commVars, scenVars>>

\* Phase 2: vset.Contains(i).
ReadmeContains(t) ==
    /\ phase[t] = "check"
    /\ next_i[t] < range_end(t)
    /\ Call(t, "Contains", next_i[t])
    /\ UNCHANGED histVars

\* Phase 2: vset.Remove(i), for an even i that Contains found.
ReadmeRemove(t) ==
    /\ phase[t] = "remove"
    /\ Call(t, "Remove", next_i[t])
    /\ UNCHANGED histVars

\* unlock() and the return to the lambda: ++i after Insert, after Remove and
\* after a Contains that is false or of an odd i; Remove(i) is next otherwise.
ReadmeUnlock(t) ==
    /\ Unlock(t)
    /\ IF op[t] = "Contains" /\ exists[t] /\ next_i[t] % 2 = 0
       THEN /\ phase' = [phase EXCEPT ![t] = "remove"]
            /\ UNCHANGED next_i
       ELSE /\ phase' = [phase EXCEPT ![t] = IF op[t] = "Remove" THEN "check" ELSE @]
            /\ next_i' = [next_i EXCEPT ![t] = @ + 1]
    /\ UNCHANGED joined
    /\ UNCHANGED <<keyVars, seqVars, commVars, scenVars>>

\* Phase 2's loop ends and the thread function returns.
ReadmeDone(t) ==
    /\ phase[t] = "check"
    /\ pc[t] = "idle"
    /\ ~(next_i[t] < range_end(t))
    /\ phase' = [phase EXCEPT ![t] = "done"]
    /\ UNCHANGED <<next_i, joined>>
    /\ UNCHANGED <<coreVars, keyVars, seqVars, commVars, scenVars>>

\* th.join() for every thread.
ReadmeJoin ==
    /\ ~joined
    /\ \A t \in Workers : phase[t] = "done"
    /\ joined' = TRUE
    /\ UNCHANGED <<phase, next_i>>
    /\ UNCHANGED <<coreVars, keyVars, seqVars, commVars, scenVars>>

\* The final checks: Contains of a key of [0, items_total), GetApproximateSize.
ReadmeCheck ==
    /\ joined
    /\ \/ \E k \in 0..(ItemsGiven - 1) : Call(Main, "Contains", k)
       \/ Call(Main, "GetApproximateSize", NoItem)
    /\ UNCHANGED histVars

\* The main thread calls only after the joins, when no lock is held, so its
\* polls never fail.
NextReadme ==
    \/ \E t \in Workers :
          \/ ReadmeInsert(t)
          \/ ReadmePhase2(t)
          \/ ReadmeContains(t)
          \/ ReadmeRemove(t)
          \/ ReadmeUnlock(t)
          \/ ReadmeDone(t)
          \/ LockAcquire(t) /\ UNCHANGED histVars
          \/ LockSpin(t) /\ UNCHANGED histVars
          \/ Access(t) /\ UNCHANGED histVars
    \/ ReadmeJoin
    \/ ReadmeCheck
    \/ LockAcquire(Main) /\ UNCHANGED histVars
    \/ Access(Main) /\ UNCHANGED histVars
    \/ Unlock(Main) /\ UNCHANGED histVars

SpecReadme == InitReadme /\ [][NextReadme]_vars

\* C14 as stated: after the joins Contains(k) is true for every odd k of
\* [0, N) and false for every even k, and GetApproximateSize() is above N/3
\* and below 2N/3 (the README's integer expressions).
C14_ReadmeAsserts ==
    /\ (op[Main] = "Contains" /\ Returning(Main)) =>
          (exists[Main] <=> item[Main] % 2 = 1)
    /\ (op[Main] = "GetApproximateSize" /\ Returning(Main)) =>
          /\ total_size[Main] > ItemsGiven \div 3
          /\ total_size[Main] < (ItemsGiven * 2) \div 3


\* ------- SpecLife: the constructor with any argument, then calls by one thread
InitLife ==
    /\ ctor_state = "pending"
    /\ \/ arg_bucket_count \in 1..MaxRequested /\ hw_threads = 0
       \/ arg_bucket_count = 0 /\ hw_threads \in 0..MaxHw
    /\ buckets_count_ = 0
    /\ bucket_mask_ = 0
    /\ buckets_ = << >>
    /\ ThreadsIdle
    /\ HistoryInit

LifeCall ==
    /\ \/ \E o \in KeyOps, k \in Keys : Call(Main, o, k)
       \/ \E o \in ScanOps : Call(Main, o, NoItem)
    /\ UNCHANGED histVars

\* No other thread exists, so a poll of a lock never finds it held.
NextLife ==
    \/ Construct
    \/ LifeCall
    \/ LockAcquire(Main) /\ UNCHANGED histVars
    \/ Access(Main) /\ UNCHANGED histVars
    \/ Unlock(Main) /\ UNCHANGED histVars

SpecLife == InitLife /\ [][NextLife]_vars

\* C15: in every state of a constructed set the bucket count is a power of
\* two (so not 0), it is the constructor's argument when that is not 0, the
\* mask is the count minus one and the buckets are exactly those of indices
\* 0..count-1; no step of Insert, Remove, Contains, Clear or
\* GetApproximateSize changes the count, the mask or the number of buckets.
C15_FixedGeometry ==
    /\ [](ctor_state = "constructed" =>
            /\ IsPowerOfTwo(GetBucketCount)
            /\ arg_bucket_count # 0 => GetBucketCount = arg_bucket_count
            /\ bucket_mask_ = buckets_count_ - 1
            /\ DOMAIN buckets_ = 0..(buckets_count_ - 1)
            /\ Cardinality(DOMAIN buckets_) = GetBucketCount)
    /\ [][ctor_state = "constructed" =>
            /\ buckets_count_' = buckets_count_
            /\ bucket_mask_' = bucket_mask_
            /\ DOMAIN buckets_' = DOMAIN buckets_]_vars

\* C15 witness: a set built with the default count for 9 hardware threads,
\* 256 buckets, whose GetApproximateSize has reached the last bucket and has
\* counted a key.
C15_Witness ==
    /\ ctor_state = "constructed"
    /\ arg_bucket_count = 0 /\ hw_threads = 9
    /\ GetBucketCount = 256
    /\ op[Main] = "GetApproximateSize" /\ i[Main] = 255 /\ total_size[Main] > 0


\* ------------- SpecFinite: every thread issues at most MaxCalls calls, fairly
\* The thread issues the next call of its sequence.
FiniteCall(t) ==
    /\ calls_left[t] > 0
    /\ FreeCall(t)
    /\ calls_left' = [calls_left EXCEPT ![t] = @ - 1]
    /\ UNCHANGED <<sized, totals, loopVars, moveVars, impl1Vars>>
    /\ UNCHANGED <<keyVars, seqVars, workVars, commVars>>

\* The thread's sequence ends here.
Retire(t) ==
    /\ pc[t] = "idle"
    /\ calls_left[t] > 0
    /\ calls_left' = [calls_left EXCEPT ![t] = 0]
    /\ UNCHANGED <<sized, totals, loopVars, moveVars, impl1Vars>>
    /\ UNCHANGED <<coreVars, keyVars, seqVars, workVars, commVars>>

\* The threads of the finite runs.
Callers == {1, 2}

\* Any step of thread t.
FiniteStep(t) ==
    \/ FiniteCall(t)
    \/ Retire(t)
    \/ LockAcquire(t) /\ UNCHANGED histVars
    \/ LockSpin(t) /\ UNCHANGED histVars
    \/ Access(t) /\ UNCHANGED histVars
    \/ Unlock(t) /\ UNCHANGED histVars

NextFinite == \E t \in Callers : FiniteStep(t)

\* Every thread that can take a step is scheduled again and again.
SpecFinite ==
    /\ Init
    /\ [][NextFinite]_vars
    /\ \A t \in Callers : WF_vars(FiniteStep(t))

\* Every thread has issued its calls and returned from them, no lock is held.
Quiescent ==
    /\ \A t \in Callers : pc[t] = "idle" /\ calls_left[t] = 0 /\ held[t] = {}
    /\ \A b \in DOMAIN buckets_ : ~buckets_[b].flag

\* C16: when every thread issues a finite sequence of calls and every thread
\* keeps being scheduled, each call that is entered returns, and from some
\* point on all threads are done and every bucket lock is free.
C16_Termination ==
    /\ \A t \in Callers : (pc[t] # "idle") ~> (pc[t] = "idle")
    /\ <>[]Quiescent

\* C16 witness: every thread has finished its sequence, every lock is free,
\* and the calls have left a key in the set.
C16_Witness ==
    /\ Quiescent
    /\ Contents # {}


\* ----- SpecContend: all threads keep calling key operations on key 0's bucket
Waiter == 1
Program == <<buckets_, threadVars>>

ContendCall(t) ==
    /\ \E o \in KeyOps : Call(t, o, 0)
    /\ UNCHANGED histVars

\* A failed poll by the waiting thread. At one such poll the state of the
\* program is noted; at the later ones, that it has polled again.
WaiterSpin ==
    /\ LockSpin(Waiter)
    /\ \/ /\ snap = << >>
          /\ snap' = <<Program>>
          /\ UNCHANGED <<polled, passed>>
       \/ /\ snap # << >>
          /\ polled' = TRUE
          /\ UNCHANGED <<snap, passed>>
    /\ UNCHANGED <<sized, totals, calls_left, moveVars, impl1Vars>>
    /\ UNCHANGED <<keyVars, seqVars, workVars, commVars>>

\* The waiting thread gets the lock: it waits no longer.
WaiterAcquire ==
    /\ LockAcquire(Waiter)
    /\ snap' = << >>
    /\ polled' = FALSE
    /\ passed' = {}
    /\ UNCHANGED <<sized, totals, calls_left, moveVars, impl1Vars>>
    /\ UNCHANGED <<keyVars, seqVars, workVars, commVars>>

\* Another thread releases the lock it took while the first one waits.
OtherUnlock(t) ==
    /\ t # Waiter
    /\ Unlock(t)
    /\ passed' = IF snap # << >> THEN passed \cup {t} ELSE passed
    /\ UNCHANGED <<snap, polled>>
    /\ UNCHANGED <<sized, totals, calls_left, moveVars, impl1Vars>>
    /\ UNCHANGED <<keyVars, seqVars, workVars, commVars>>

NextContend ==
    \/ WaiterSpin
    \/ WaiterAcquire
    \/ Access(Waiter) /\ UNCHANGED histVars
    \/ Unlock(Waiter) /\ UNCHANGED histVars
    \/ \E t \in Threads :
          \/ ContendCall(t)
          \/ OtherUnlock(t)
    \/ \E t \in Threads \ {Waiter} :
          \/ LockAcquire(t) /\ UNCHANGED histVars
          \/ LockSpin(t) /\ UNCHANGED histVars
          \/ Access(t) /\ UNCHANGED histVars

SpecContend == Init /\ [][NextContend]_vars

\* C17: the lock keeps no order among the threads in lock(): whenever a
\* bucket's flag is clear, every thread polling it can be the one that takes
\* it, one that has just released it and called again as well as one that has
\* polled in vain since before; and while a thread's noted wait lasts it
\* holds nothing and is still in lock().
C17_NoOrder ==
    /\ \A t \in Threads :
          (pc[t] = "lock" /\ ~buckets_[get_bucket(t)].flag) => ENABLED LockAcquire(t)
    /\ snap # << >> => (pc[Waiter] = "lock" /\ held[Waiter] = {})

\* C17 witness: the program is again exactly as it was at a failed poll of the
\* waiting thread, which has polled again since and still waits, while every
\* other thread has taken and released the same lock: the steps in between
\* can repeat for ever, with every thread taking steps.
C17_Witness ==
    /\ snap = <<Program>>
    /\ polled
    /\ passed = Threads \ {Waiter}
    /\ pc[Waiter] = "lock"


\* The buckets that store key k.
BucketsOf(k) == {b \in DOMAIN buckets_ : k \in buckets_[b].data_set}

\* C18: whatever the interleaving of the five operations, a key stored in
\* bucket b is one whose unsigned bits AND (bucket count - 1) give b, so no
\* key is stored in two buckets; and a Contains(k) that has looked into its
\* one bucket has found k exactly when some bucket stores k.
C18_KeysInOwnBucket ==
    /\ \A b \in DOMAIN buckets_ : \A k \in buckets_[b].data_set :
          BitAnd(UnsignedBits(k), GetBucketCount - 1) = b
    /\ \A k \in Keys : Cardinality(BucketsOf(k)) <= 1
    /\ \A t \in Threads :
          (op[t] = "Contains" /\ pc[t] = "unlock") =>
              (exists[t] <=> item[t] \in Contents)

\* C18 witness: both of two buckets store keys, bucket 0 two of them, a
\* Contains has found its key in one bucket while another thread is about to
\* insert into the other.
C18_Witness ==
    /\ GetBucketCount = 2
    /\ Cardinality(buckets_[0].data_set) = 2
    /\ buckets_[1].data_set # {}
    /\ \E t1, t2 \in Threads :
          /\ op[t1] = "Contains" /\ pc[t1] = "unlock" /\ exists[t1]
          /\ op[t2] = "Insert" /\ pc[t2] = "cs"
          /\ get_bucket(t1) # get_bucket(t2)


\* The smallest power of two that is at least n.
Pow2AtLeast(n) ==
    CHOOSE p \in {2^e : e \in 0..SizeTBits} :
        /\ p >= n
        /\ \A q \in {2^e : e \in 0..SizeTBits} : q >= n => p <= q

DefaultBuilt == ctor_state = "constructed" /\ arg_bucket_count = 0

\* C19 as stated: built with bucket count 0, the bucket count is
\* max(128, next power of two of h * 16) for every hardware thread count h,
\* a power of two and at least 128.
C19_AnyThreadCount ==
    DefaultBuilt =>
        /\ GetBucketCount = Max(128, Pow2AtLeast(hw_threads * 16))
        /\ IsPowerOfTwo(GetBucketCount)
        /\ GetBucketCount >= 128

\* C19 amended: built with bucket count 0, the bucket count is
\* max(128, next power of two of h * 16) for the hardware thread counts h with
\* 0 < h < UINT_MAX / 16, and 128 for h = 0 and for h >= UINT_MAX / 16; it is
\* a power of two and at least 128.
C19_DefaultBuckets ==
    DefaultBuilt =>
        /\ GetBucketCount =
              IF hw_threads > 0 /\ hw_threads < UIntMax \div 16
              THEN Max(128, Pow2AtLeast(hw_threads * 16))
              ELSE 128
        /\ IsPowerOfTwo(GetBucketCount)
        /\ GetBucketCount >= 128

\* C19 witness: 10 hardware threads, 160 rounded up to 256 buckets.
C19_Witness ==
    /\ DefaultBuilt
    /\ hw_threads = 10
    /\ GetBucketCount = 256
    /\ DOMAIN buckets_ = 0..255


\* ------------------- SpecMove: a Bucket is move-constructed from another
\* The source holds any keys, its lock is held or free; no set is involved.
InitMove ==
    /\ ctor_state = "pending"
    /\ arg_bucket_count = 0
    /\ hw_threads = 0
    /\ buckets_count_ = 0
    /\ bucket_mask_ = 0
    /\ buckets_ = << >>
    /\ ThreadsIdle
    /\ CallersInit
    /\ Impl1None
    /\ \E f \in BOOLEAN, S \in SUBSET Keys : other = [flag |-> f, data_set |-> S]
    /\ this_ = << >>
    /\ moved_keys = << >>

\* Bucket(Bucket&& other). What a moved-from unordered_set holds is
\* unspecified: any of the keys it held.
MoveConstruct ==
    /\ this_ = << >>
    /\ this_' = Bucket_move(other)
    /\ moved_keys' = <<other.data_set>>
    /\ \E left \in SUBSET other.data_set : other' = [other EXCEPT !.data_set = left]
    /\ UNCHANGED <<sized, totals, calls_left, loopVars, impl1Vars>>
    /\ UNCHANGED <<coreVars, keyVars, seqVars, workVars, commVars>>

\* lock.lock() on the new bucket, one poll.
NewLock ==
    /\ this_ # << >>
    /\ LET r == test_and_set(this_.flag)
       IN /\ ~r.old
          /\ this_' = [this_ EXCEPT !.flag = r.new]
    /\ UNCHANGED <<other, moved_keys>>
    /\ UNCHANGED <<sized, totals, calls_left, loopVars, impl1Vars>>
    /\ UNCHANGED <<coreVars, keyVars, seqVars, workVars, commVars>>

\* lock.unlock() on the new bucket by its holder.
NewUnlock ==
    /\ this_ # << >>
    /\ this_.flag
    /\ this_' = [this_ EXCEPT !.flag = flag_clear(@)]
    /\ UNCHANGED <<other, moved_keys>>
    /\ UNCHANGED <<sized, totals, calls_left, loopVars, impl1Vars>>
    /\ UNCHANGED <<coreVars, keyVars, seqVars, workVars, commVars>>

\* lock.unlock() on the source by the thread that holds its lock.
SourceUnlock ==
    /\ other.flag
    /\ other' = [other EXCEPT !.flag = flag_clear(@)]
    /\ UNCHANGED <<this_, moved_keys>>
    /\ UNCHANGED <<sized, totals, calls_left, loopVars, impl1Vars>>
    /\ UNCHANGED <<coreVars, keyVars, seqVars, workVars, commVars>>

NextMove ==
    \/ MoveConstruct
    \/ NewLock
    \/ NewUnlock
    \/ SourceUnlock

SpecMove == InitMove /\ [][NextMove]_vars

\* C20: the step that move-constructs a Bucket leaves the new bucket's lock
\* unlocked, whether the source's lock is held or not, and gives it exactly
\* the keys the source held before the step; the new bucket keeps those keys.
C20_MoveConstruct ==
    /\ [][(this_ = << >> /\ this_' # << >>) =>
            /\ ~this_'.flag
            /\ this_'.data_set = other.data_set]_vars
    /\ [](this_ # << >> => this_.data_set = moved_keys[1])

\* C20 witness: the new bucket is unlocked and holds two keys, the source's
\* lock is held and the source is left empty.
C20_Witness ==
    /\ this_ # << >>
    /\ ~this_.flag
    /\ Cardinality(this_.data_set) = 2
    /\ other.flag
    /\ other.data_set = {}


\* ---- SpecGrow: one GetApproximateSize by thread 1 while the others only insert
\* GetApproximateSize is entered, once; what the buckets hold then is noted.
GrowSizeCall ==
    /\ totals = {}
    /\ Call(Sizer, "GetApproximateSize", NoItem)
    /\ totals' = {TotalOf(buckets_)}
    /\ before' = DataOf
    /\ UNCHANGED <<sized, calls_left, loopVars, moveVars, impl1Vars>>
    /\ UNCHANGED <<prev_call, last_call, abs_set>>
    /\ UNCHANGED <<keyVars, workVars, commVars>>

GrowCall(t) ==
    /\ t # Sizer
    /\ \E k \in Keys : Call(t, "Insert", k)
    /\ UNCHANGED histVars

NextGrow ==
    \/ GrowSizeCall
    \/ SizeAcquire
    \/ Access(Sizer) /\ UNCHANGED histVars
    \/ \E t \in Threads :
          \/ GrowCall(t)
          \/ LockSpin(t) /\ UNCHANGED histVars
          \/ Unlock(t) /\ UNCHANGED histVars
    \/ \E t \in Threads \ {Sizer} :
          \/ LockAcquire(t) /\ UNCHANGED histVars
          \/ Access(t) /\ UNCHANGED histVars

SpecGrow == Init /\ [][NextGrow]_vars

\* C21: with only Insert calls running beside it, the value GetApproximateSize
\* is about to return is at least the number of keys the set held when the
\* call was made and at most the number it holds now, at the return.
C21_BetweenCallAndReturn ==
    (op[Sizer] = "GetApproximateSize" /\ Returning(Sizer)) =>
        /\ total_size[Sizer] >= SumSizes(before, DOMAIN before)
        /\ total_size[Sizer] <= SumSizes(DataOf, DOMAIN DataOf)

\* C21 witness: the value to be returned is above the size at the call and
\* below the size at the return.
C21_Witness ==
    /\ op[Sizer] = "GetApproximateSize"
    /\ Returning(Sizer)
    /\ total_size[Sizer] > SumSizes(before, DOMAIN before)
    /\ total_size[Sizer] < SumSizes(DataOf, DOMAIN DataOf)

\* ------------------------------------------------- Impl1::ConcurrentSet
\* explicit ConcurrentSet(size_t buckets) : buckets_(buckets) {}
Impl1Constructor(buckets) == [b \in 0..(buckets - 1) |-> Impl1NewBucket]

\* auto& bucket = buckets_[bucketIndex(item)]
Impl1Bucket(t) == bucketIndex(impl1_item[t], Cardinality(DOMAIN impl1_buckets_))

\* Entry of Include, Exclude or Contains.
Impl1Call(t, o, k) ==
    /\ impl1_pc[t] = "idle"
    /\ impl1_op' = [impl1_op EXCEPT ![t] = o]
    /\ impl1_item' = [impl1_item EXCEPT ![t] = k]
    /\ impl1_exists' = [impl1_exists EXCEPT ![t] = FALSE]
    /\ impl1_pc' = [impl1_pc EXCEPT ![t] = "lock"]
    /\ UNCHANGED impl1_buckets_

\* Impl1::SpinLock::lock, one poll that finds the flag clear.
Impl1Acquire(t) ==
    /\ impl1_pc[t] = "lock"
    /\ LET b == Impl1Bucket(t)
           r == test_and_set(impl1_buckets_[b].flag)
       IN /\ ~r.old
          /\ impl1_buckets_' = [impl1_buckets_ EXCEPT ![b].flag = r.new]
    /\ impl1_pc' = [impl1_pc EXCEPT ![t] = "cs"]
    /\ UNCHANGED <<impl1_op, impl1_item, impl1_exists>>

\* Impl1::SpinLock::lock, one poll that finds the flag set.
Impl1Spin(t) ==
    /\ impl1_pc[t] = "lock"
    /\ LET b == Impl1Bucket(t)
           r == test_and_set(impl1_buckets_[b].flag)
       IN /\ r.old
          /\ impl1_buckets_' = [impl1_buckets_ EXCEPT ![b].flag = r.new]
    /\ UNCHANGED <<impl1_pc, impl1_op, impl1_item, impl1_exists>>

\* The statement between lock() and unlock().
Impl1Access(t) ==
    /\ impl1_pc[t] = "cs"
    /\ LET b == Impl1Bucket(t)
           s == impl1_buckets_[b].set
       IN CASE impl1_op[t] = "Include" ->
                 /\ impl1_buckets_' = [impl1_buckets_ EXCEPT ![b].set = set_insert(s, impl1_item[t])]
                 /\ UNCHANGED impl1_exists
            [] impl1_op[t] = "Exclude" ->
                 /\ impl1_buckets_' = [impl1_buckets_ EXCEPT ![b].set = set_erase(s, impl1_item[t])]
                 /\ UNCHANGED impl1_exists
            [] impl1_op[t] = "Contains" ->
                 /\ impl1_exists' = [impl1_exists EXCEPT ![t] = set_find(s, impl1_item[t])]
                 /\ UNCHANGED impl1_buckets_
    /\ impl1_pc' = [impl1_pc EXCEPT ![t] = "unlock"]
    /\ UNCHANGED <<impl1_op, impl1_item>>

\* Impl1::SpinLock::unlock and the return.
Impl1Unlock(t) ==
    /\ impl1_pc[t] = "unlock"
    /\ LET b == Impl1Bucket(t)
       IN impl1_buckets_' = [impl1_buckets_ EXCEPT ![b].flag = flag_clear(@)]
    /\ impl1_pc' = [impl1_pc EXCEPT ![t] = "idle"]
    /\ impl1_op' = [impl1_op EXCEPT ![t] = "none"]
    /\ impl1_item' = [impl1_item EXCEPT ![t] = NoItem]
    /\ impl1_exists' = [impl1_exists EXCEPT ![t] = FALSE]

\* ------------------------------- both sets under one schedule (SpecEquiv)
\* A velocity::VelocitySet and an Impl1::ConcurrentSet are built with the same
\* power-of-two bucket count; every call is made on both (Insert/Include,
\* Remove/Exclude, Contains/Contains) and every step of a thread is taken in
\* both.
Impl1Name(o) ==
    CASE o = "Insert" -> "Include"
      [] o = "Remove" -> "Exclude"
      [] o = "Contains" -> "Contains"

InitEquiv ==
    /\ \E n \in {m \in 1..MaxBucketCount : is_power_of_two(m)} :
          /\ Constructed(n, 0)
          /\ impl1_buckets_ = Impl1Constructor(n)
    /\ ThreadsIdle
    /\ Impl1ThreadsIdle
    /\ CallersInit
    /\ MoveInit

equivRest == <<keyVars, seqVars, workVars, commVars, sized, totals, calls_left, loopVars, moveVars>>

EquivCall(t) ==
    /\ \E o \in KeyOps, k \in Keys : Call(t, o, k) /\ Impl1Call(t, Impl1Name(o), k)
    /\ UNCHANGED equivRest

NextEquiv ==
    \E t \in Threads :
       \/ EquivCall(t)
       \/ LockAcquire(t) /\ Impl1Acquire(t) /\ UNCHANGED equivRest
       \/ LockSpin(t) /\ Impl1Spin(t) /\ UNCHANGED equivRest
       \/ Access(t) /\ Impl1Access(t) /\ UNCHANGED equivRest
       \/ Unlock(t) /\ Impl1Unlock(t) /\ UNCHANGED equivRest

SpecEquiv == InitEquiv /\ [][NextEquiv]_vars

\* The step a thread is at can be taken in one set exactly when it can be
\* taken in the other.
SameSteps(t) ==
    /\ pc[t] = impl1_pc[t]
    /\ (ENABLED LockAcquire(t)) <=> (ENABLED Impl1Acquire(t))
    /\ (ENABLED LockSpin(t)) <=> (ENABLED Impl1Spin(t))
    /\ (ENABLED Access(t)) <=> (ENABLED Impl1Access(t))
    /\ (ENABLED Unlock(t)) <=> (ENABLED Impl1Unlock(t))

\* C22: built with the same power-of-two bucket count and driven by the same
\* calls under the same interleaving, Impl1::ConcurrentSet and VelocitySet
\* route every key in a call to the same bucket index, hold the same keys and
\* the same lock state in every bucket, are at the same step in every thread,
\* and are about to return the same Contains result.
C22_Equivalent ==
    /\ DOMAIN impl1_buckets_ = DOMAIN buckets_
    /\ \A t \in Threads :
          pc[t] # "idle" =>
             /\ impl1_item[t] = item[t]
             /\ impl1_op[t] = Impl1Name(op[t])
             /\ Impl1Bucket(t) = hash_to_index(item[t], bucket_mask_)
    /\ \A b \in DOMAIN buckets_ :
          /\ impl1_buckets_[b].set = buckets_[b].data_set
          /\ impl1_buckets_[b].flag = buckets_[b].flag
    /\ \A t \in Threads : SameSteps(t)
    /\ \A t \in Threads :
          (op[t] = "Contains" /\ Returning(t)) => impl1_exists[t] = exists[t]

\* C22 witness: with two buckets that both hold keys, one thread is about to
\* return true from Contains in both sets while the other polls a lock that
\* is held in both.
C22_Witness ==
    /\ buckets_count_ = 2
    /\ \A b \in DOMAIN buckets_ : buckets_[b].data_set # {} /\ impl1_buckets_[b].set # {}
    /\ \E t \in Threads :
          /\ op[t] = "Contains" /\ impl1_op[t] = "Contains"
          /\ Returning(t)
          /\ exists[t] /\ impl1_exists[t]
          /\ \E u \in Threads \ {t} :
                /\ pc[u] = "lock" /\ impl1_pc[u] = "lock"
                /\ Impl1Bucket(u) = Impl1Bucket(t)
                /\ get_bucket(u) = get_bucket(t)

\* --------------------- SpecAssign: a Bucket is move-assigned from another
\* Both buckets exist, each holds any keys, each lock is held or free.
InitAssign ==
    /\ ctor_state = "pending"
    /\ arg_bucket_count = 0
    /\ hw_threads = 0
    /\ buckets_count_ = 0
    /\ bucket_mask_ = 0
    /\ buckets_ = << >>
    /\ ThreadsIdle
    /\ CallersInit
    /\ Impl1None
    /\ \E f \in BOOLEAN, S \in SUBSET Keys : other = [flag |-> f, data_set |-> S]
    /\ \E f \in BOOLEAN, S \in SUBSET Keys : this_ = [flag |-> f, data_set |-> S]
    /\ moved_keys = << >>

\* *this = std::move(other) with two distinct buckets. What the moved-from
\* unordered_set holds is unspecified: any of the keys it held.
MoveAssign ==
    /\ moved_keys = << >>
    /\ this_' = Bucket_move_assign(this_, other, FALSE)
    /\ moved_keys' = <<other.data_set>>
    /\ \E left \in SUBSET other.data_set : other' = [other EXCEPT !.data_set = left]
    /\ UNCHANGED <<sized, totals, calls_left, loopVars, impl1Vars>>
    /\ UNCHANGED <<coreVars, keyVars, seqVars, workVars, commVars>>

\* *this = std::move(*this): source and destination are the same bucket.
MoveAssignSelf ==
    /\ moved_keys = << >>
    /\ this_' = Bucket_move_assign(this_, this_, TRUE)
    /\ moved_keys' = <<this_.data_set>>
    /\ UNCHANGED other
    /\ UNCHANGED <<sized, totals, calls_left, loopVars, impl1Vars>>
    /\ UNCHANGED <<coreVars, keyVars, seqVars, workVars, commVars>>

NextAssign ==
    \/ MoveAssign
    \/ MoveAssignSelf
    \/ NewLock
    \/ NewUnlock
    \/ SourceUnlock

SpecAssign == InitAssign /\ [][NextAssign]_vars

\* C23: the step that move-assigns a Bucket leaves the destination holding
\* the keys the source held before the step and its lock unlocked, whether
\* the locks of source and destination were held or free before the step.
C23_MoveAssign ==
    [][(moved_keys = << >> /\ moved_keys' # << >>) =>
          /\ this_'.data_set = moved_keys'[1]
          /\ ~this_'.flag]_vars

=============================================================================
